---- MODULE Spec2Model ----
(***************************************************************************)
(* A model of the money-transfer system's two transfer paths over the      *)
(* sharded account databases:                                              *)
(*   - ACIDShardManager.execute_acid_transfer, the two-phase-commit        *)
(*     coordinator of docs/acid_compliant_payment_system.py  (SpecACID);   *)
(*   - transfer_funds / SimpleShardManager._execute_transfer, the path of  *)
(*     shard_manager_service/main.py, with its retry wrapper (SpecSimple). *)
(* Both act on the same shard tables: accounts (balance) and               *)
(* ledger_entries (ledger).                                                *)
(*                                                                         *)
(* ACIDShardManager defines neither get_shard_id nor its sessions; it is   *)
(* modelled with those of SimpleShardManager, whose attributes it names.   *)
(* Several coordinators (processes) may work on the same shards: calls of  *)
(* one coordinator do not interleave between their start and the sleep of  *)
(* the finally block, calls of different coordinators interleave at every  *)
(* shard operation.  A shard operation may fail (raise), at most           *)
(* MaxFailures times in a behaviour.                                       *)
(*                                                                         *)
(* The resilience layer of common/ is modelled on its own:                 *)
(*   - CircuitBreaker (common/circuit_breaker.py) as the one instance      *)
(*     mysql_circuit_breaker, whose call() admits a call, awaits the       *)
(*     wrapped function and records the outcome; calls overlap at the      *)
(*     await, and the clock advances in steps of TickSeconds  (SpecCB);    *)
(*   - retry_async (common/retry.py) run on a function that returns or     *)
(*     raises as it likes, under configurations that differ in             *)
(*     max_attempts and retryable_exceptions  (SpecRetry).  The length of  *)
(*     a sleep is not part of the state;                                   *)
(*   - SimpleShardManager.get_shard_id with the Redis keys                 *)
(*     shard_route:<user_id>, called by managers that may have been        *)
(*     started with different TOTAL_SHARDS  (SpecRouter).  In the other    *)
(*     specifications every manager has total_shards shards and            *)
(*     get_shard_id is the hash of the user id.                            *)
(***************************************************************************)
EXTENDS Integers, Sequences, FiniteSets, TLC

\* ------------------------------------------------------------------ bounds
MaxCalls == 2
MaxManagers == 2
MaxAmount == 2
MaxFailures == 1
MaxReqs == 2
MaxCBCalls == 2        \* calls of the breaker that may be in flight together
MaxTime == 60          \* the clock stops here (seconds)
TickSeconds == 15      \* the clock's step (seconds)
MaxFailureCount == 4   \* failures are recorded while failure_count is below this
MaxRuns == 2           \* retry_async runs that may overlap
MaxAttempts == 3       \* the largest config.max_attempts
MaxMinutes == 7        \* the coordinator's clock stops here (minutes)
MaxPassed == 11        \* requests of one user that may pass in one window
MaxLedgerReqs == 2     \* /payment/transfer requests that may overlap
MaxDelayAttempt == 7   \* attempt numbers given to calculate_delay
JitterSteps == 4       \* values of random.random() that are told apart

\* ------------------------------------------------------- program constants
total_shards == 4
max_attempts == 3
\* MYSQL_CB_CONFIG
failure_threshold == 3
reset_timeout == 30
success_threshold == 2
\* timedelta(minutes=5)
TimeoutMinutes == 5
\* redis_client.check_rate_limit(authenticated_user, "transfer", 10, 60)
max_requests == 10
exponential_base == 2

Calls == 1..MaxCalls
Managers == 1..MaxManagers
Reqs == 1..MaxReqs
\* amount_cents as the callers may pass it: 0 stands for the non-positive
\* amounts, 1..MaxAmount for the positive ones.
Amounts == 0..MaxAmount
PaymentIds == {"p1", "p2"}

\* The user ids of the model.  "ghost" has no row in any accounts table.
Users == {"alice", "bob", "user_1", "ghost"}
Existing == {"alice", "bob", "user_1"}
InitBalance == [u \in Existing |-> 1]

\* The (from_user, to_user) pairs the callers pass: within one shard, across
\* two shards in either shard order, to a missing recipient, from a missing
\* sender.
Transfers == {<<"alice", "bob">>, <<"alice", "user_1">>, <<"user_1", "alice">>,
              <<"alice", "ghost">>, <<"ghost", "alice">>}

\* The last byte of hashlib.md5(user_id).hexdigest(), as an integer.
Md5LowByte(u) ==
    CASE u = "alice"  -> 60      \* 6384e2b2184bcbf58eccf10ca7a6563c
      [] u = "bob"    -> 216     \* 9f9d51bc70ef21ca5c14f307980a29d8
      [] u = "user_1" -> 65      \* 3f49044c1469c6990a665f46ec6c0a41
      [] u = "ghost"  -> 223     \* 71144850f4fb4cc55fc0ee6935badddf

\* int(md5(user_id), 16) % total_shards.  total_shards divides 256, so the
\* digest's last byte decides the remainder.
get_shard_id(u) == Md5LowByte(u) % total_shards

VARIABLES
    balance,          \* accounts.balance of every existing account, on its shard
    ledger,           \* the rows of ledger_entries over all shards
    failures,         \* shard operations that have failed so far (bounded)
    \* ---- ACIDShardManager
    pc,               \* where each execute_acid_transfer call stands
    ops,              \* TransactionState.operations of each call, with payment_id
    mgr,              \* the coordinator instance (process) that runs the call
    phase,            \* TransactionState.phase of each call's transaction
    prepare_results,  \* the votes collected so far, in participant order
    commit_results,   \* the commit results collected so far, in participant order
    outcome,          \* what the call hands its caller
    replay,           \* the call whose terminal state the log held for this call's
                      \* payment_id when the call began (0: none)
    transaction_log,  \* per coordinator: payment_id -> the call whose state it holds (0: none)
    prepared_transactions,  \* the committed rows of prepared_transactions, over all shards
    lock_order,       \* the shard ids each call passed to _acquire_shard_lock, in order
    last_rollback,    \* the last _commit_shard_transaction that raised: its call,
                      \* its shard and how many statements had run in its session
    minutes,          \* datetime.now(), in minutes
    timeout_at,       \* TransactionState.timeout_at of each call's transaction
    blocked,          \* whether the call waits on a shard that never answers
    \* ---- shard manager service
    rpc,              \* where each transfer_funds request stands
    rq,               \* the request's from_user, to_user, amount and amount_cents
    from_result,      \* what get_account_from_shard gave for from_user
    to_result,        \* what get_account_from_shard gave for to_user
    attempt,          \* retry_async's attempt number in execute_transfer_with_retry
    response,         \* the HTTP status the request ends with (0: none yet)
    balance_cache,    \* the Redis keys balance:<user_id> (-1: no such key)
    \* ---- mysql_circuit_breaker
    cb,               \* the CircuitBreaker's state, failure_count, success_count,
                      \* last_failure_time and last_state_change
    now,              \* time.time()
    cpc,              \* where each call() stands: "idle" or "running" (awaiting func)
    cuser,            \* the user whose shard the wrapped function works on
    admitted_in,      \* the breaker state in which the running call was admitted
    cb_event,         \* the last thing the breaker did, for which call and shard,
                      \* and the state it was in before
    streak,           \* failures recorded since the last recorded success
    since_half,       \* successes recorded since the breaker entered HALF_OPEN
    failed_shards,    \* the shards whose calls have had a failure recorded
    \* ---- retry_async
    retry_pc,         \* where each run stands: "idle", "calling", "sleeping",
                      \* "returned", "raised"
    config,           \* the run's RetryConfig: max_attempts, retryable_exceptions
    retry_attempt,    \* the loop variable attempt
    sleeps,           \* the asyncio.sleep calls the run has made
    last_exception,   \* last_exception: its type and the attempt that raised it
    retry_result,     \* what the run handed its caller
    calls,            \* what func did at each of the run's calls, in order
    delay_call,       \* the last call of calculate_delay and its result
    \* ---- shard routing
    shard_route,      \* the Redis keys shard_route:<user_id> (NoRoute: no such key)
    route_result,     \* the last get_shard_id call: its user, the manager's
                      \* total_shards, the value returned, and whether the
                      \* cache gave it
    counts_used,      \* the total_shards of the managers that called get_shard_id
    \* ---- the event bus
    kafka_up,         \* whether Kafka accepts messages
    published,        \* the payment ids whose PaymentInitiated event was produced
    \* ---- the rate limiter
    rate_limit,       \* the Redis keys rate_limit:<user_id>:transfer:<window> of
                      \* the current window (0: no such key)
    passed,           \* the requests of each user that passed the rate-limit
                      \* check in the current window
    \* ---- ledger service
    lpc,              \* where each /payment/transfer request stands
    lreq,             \* the request's from_user, to_user and amount_cents
    row_lock,         \* the request whose transaction holds the FOR UPDATE lock
                      \* on each accounts row (0: none)
    lresp,            \* the HTTP status the request ends with (0: none yet)
    in_cycle          \* whether the request's lock wait ended while the holder
                      \* of the row was itself waiting for a row of the request

acidVars == <<pc, ops, mgr, phase, prepare_results, commit_results, outcome,
              replay, transaction_log, prepared_transactions, lock_order,
              last_rollback, minutes, timeout_at, blocked>>
dbVars == <<balance, ledger, failures>>
simpleVars == <<rpc, rq, from_result, to_result, attempt, response, balance_cache>>
cbVars == <<cb, now, cpc, cuser, admitted_in, cb_event, streak, since_half,
            failed_shards>>
retryVars == <<retry_pc, config, retry_attempt, sleeps, last_exception,
               retry_result, calls, delay_call>>
routerVars == <<shard_route, route_result, counts_used>>
kafkaVars == <<kafka_up, published>>
rateVars == <<rate_limit, passed>>
ledgerVars == <<lpc, lreq, row_lock, lresp, in_cycle>>
vars == <<balance, ledger, failures, pc, ops, mgr, phase, prepare_results,
          commit_results, outcome, replay, transaction_log,
          prepared_transactions, lock_order, last_rollback,
          minutes, timeout_at, blocked,
          rpc, rq, from_result, to_result, attempt, response, balance_cache,
          cb, now, cpc, cuser, admitted_in, cb_event, streak, since_half,
          failed_shards,
          retry_pc, config, retry_attempt, sleeps, last_exception,
          retry_result, calls, delay_call,
          shard_route, route_result, counts_used,
          kafka_up, published,
          rate_limit, passed,
          lpc, lreq, row_lock, lresp, in_cycle>>

NoOps == [from_user |-> "", to_user |-> "", amount_cents |-> 0,
          from_shard |-> 0, to_shard |-> 0, payment_id |-> ""]

\* ------------------------------------------------------------ shard tables

\* A ledger_entries row.  "by" stands for the row's auto-increment id: it
\* keeps apart the rows that different executions insert with equal columns.
LedgerRow(pid, account, amount, direction, shard, by) ==
    [payment_id |-> pid, account_id |-> account, amount |-> amount,
     direction |-> direction, shard |-> shard, by |-> by]

\* UPDATE accounts SET balance = balance + delta WHERE user_id = u
\* (no row matches a user without an account).
UpdateBalance(bal, u, delta) ==
    IF u \in DOMAIN bal THEN [bal EXCEPT ![u] = @ + delta] ELSE bal

\* --------------------------------------------------------- ACIDShardManager

\* [from_shard_id, to_shard_id] without duplicates, the sender's shard first,
\* in the place of the set's order.
ParticipantsSenderFirst(o) ==
    IF o.from_shard = o.to_shard THEN <<o.from_shard>>
    ELSE <<o.from_shard, o.to_shard>>

\* list(set([from_shard_id, to_shard_id])): CPython iterates a set of small
\* non-negative ints in ascending order.
Participants(o) ==
    IF o.from_shard = o.to_shard THEN <<o.from_shard>>
    ELSE IF o.from_shard < o.to_shard THEN <<o.from_shard, o.to_shard>>
    ELSE <<o.to_shard, o.from_shard>>

_acquire_shard_lock(shard_id, transaction_id) == TRUE

\* The vote of one shard.  dbok = FALSE: a statement (or opening the session)
\* raises.  The session is closed without a commit, so neither the row lock
\* nor the prepared_transactions row outlives the call.
_prepare_shard_transaction(shard_id, o, bal, dbok) ==
    IF ~dbok THEN FALSE
    ELSE IF shard_id = o.from_shard
         THEN o.from_user \in DOMAIN bal /\ bal[o.from_user] >= o.amount_cents
    ELSE IF shard_id = o.to_shard
         THEN o.to_user \in DOMAIN bal
    ELSE TRUE

\* The prepared_transactions row the session of _prepare_shard_transaction
\* has inserted when the vote is returned.
PreparedRows(shard_id, o, vote) ==
    IF vote /\ shard_id \in {o.from_shard, o.to_shard}
    THEN {[transaction_id |-> o.payment_id, shard_id |-> shard_id,
           status |-> "PREPARED"]}
    ELSE {}

\* session.close(): what the session wrote reaches the table only if the
\* session was committed before; otherwise it is rolled back.
session_close(table, pending, committed) ==
    IF committed THEN table \cup pending ELSE table

\* UPDATE prepared_transactions SET status = :status
\* WHERE transaction_id = :tx_id AND shard_id = :shard_id
SetStatus(table, tx_id, shard_id, status) ==
    {IF r.transaction_id = tx_id /\ r.shard_id = shard_id
     THEN [r EXCEPT !.status = status] ELSE r : r \in table}

\* prepared_transactions after _abort_shard_transaction on every participant.
AbortAll(table, tx_id, parts) ==
    LET first == SetStatus(table, tx_id, parts[1], "ABORTED")
    IN IF Len(parts) = 1 THEN first
       ELSE SetStatus(first, tx_id, parts[2], "ABORTED")

\* any(results.values()) in the place of all(results.values())
AnyTrue(results) == \E i \in 1..Len(results) : results[i]

\* all(results.values())
AllTrue(results) == \A i \in 1..Len(results) : results[i]

\* The accounts table after _commit_shard_transaction's local transaction.
CommitBalance(shard_id, o, bal) ==
    IF shard_id = o.from_shard THEN UpdateBalance(bal, o.from_user, 0 - o.amount_cents)
    ELSE IF shard_id = o.to_shard THEN UpdateBalance(bal, o.to_user, o.amount_cents)
    ELSE bal

\* The ledger_entries rows _commit_shard_transaction's local transaction inserts.
CommitLedger(shard_id, o, by) ==
    IF shard_id = o.from_shard
    THEN {LedgerRow(o.payment_id, o.from_user, o.amount_cents, "debit", shard_id, by)}
    ELSE IF shard_id = o.to_shard
    THEN {LedgerRow(o.payment_id, o.to_user, o.amount_cents, "credit", shard_id, by)}
    ELSE {}

\* The statements of _commit_shard_transaction's session, in order; any of
\* them may raise.
CommitStatements == <<"UPDATE accounts", "INSERT INTO ledger_entries",
                      "UPDATE prepared_transactions", "COMMIT">>

NoRollback == [call |-> 0, shard_id |-> 0, executed |-> 0]

\* The tables as _commit_shard_transaction's session sees them after its
\* first n statements.
SessionAfter(shard_id, o, by, db, n) ==
    [balance |-> IF n >= 1 THEN CommitBalance(shard_id, o, db.balance)
                 ELSE db.balance,
     ledger |-> IF n >= 2 THEN db.ledger \cup CommitLedger(shard_id, o, by)
                ELSE db.ledger,
     prepared |-> IF n >= 3
                  THEN SetStatus(db.prepared, o.payment_id, shard_id, "COMMITTED")
                  ELSE db.prepared]

\* A session whose work stays in the tables when it is abandoned.
session_autocommit(db, session) == session

\* session.rollback(): the tables are as they were before the session.
session_rollback(db, session) == db

\* _commit_shard_transaction: the tables after it and what it returns.
\* fail_at = 0: no statement raises; fail_at = k: statement k raises.
_commit_shard_transaction(shard_id, o, by, db, fail_at) ==
    IF fail_at = 0
    THEN [db |-> SessionAfter(shard_id, o, by, db, Len(CommitStatements) - 1),
          result |-> TRUE]
    ELSE [db |-> session_rollback(db, SessionAfter(shard_id, o, by, db, fail_at - 1)),
          result |-> FALSE]

\* A coordinator whose calls give way to each other at every await.
YieldsAtEveryAwait(c) == FALSE

\* A coordinator runs on one event loop and its shard calls are synchronous:
\* a call runs from its start to the sleep of its finally block without
\* yielding to another call of the same coordinator.
Running(c) == pc[c] \in {"prepare", "commit", "abort"}

\* The call slots are used in order, and a call runs on a coordinator (uses a
\* payment_id) that an earlier call used or on the first unused one: the
\* coordinators, like the payment ids, differ in name only.
FreshOrUsed(S, used) == {x \in S : \A y \in S : y < x => y \in used}
FreshOrUsedPid(used) ==
    IF "p1" \in used THEN PaymentIds ELSE {"p1"}

\* execute_acid_transfer up to the coordinator log write.
execute_acid_transfer(c) ==
    /\ pc[c] = "idle"
    /\ \A d \in Calls : d < c => pc[d] # "idle"
    /\ \E m \in FreshOrUsed(Managers, {mgr[d] : d \in Calls}),
          p \in FreshOrUsedPid({ops[d].payment_id : d \in Calls}),
          ft \in Transfers, a \in Amounts :
       LET f == ft[1]
           t == ft[2]
       IN /\ \A d \in Calls : mgr[d] = m => ~Running(d)
          /\ mgr' = [mgr EXCEPT ![c] = m]
          /\ ops' = [ops EXCEPT ![c] =
                        [from_user |-> f, to_user |-> t, amount_cents |-> a,
                         from_shard |-> get_shard_id(f), to_shard |-> get_shard_id(t),
                         payment_id |-> p]]
          /\ replay' = [replay EXCEPT ![c] =
                           IF /\ transaction_log[m][p] # 0
                              /\ phase[transaction_log[m][p]] \in {"COMMITTED", "ABORTED"}
                           THEN transaction_log[m][p] ELSE 0]
          /\ transaction_log' = [transaction_log EXCEPT ![m][p] = c]
    /\ phase' = [phase EXCEPT ![c] = "PREPARING"]
    /\ timeout_at' = [timeout_at EXCEPT ![c] = minutes + TimeoutMinutes]
    /\ pc' = [pc EXCEPT ![c] = "prepare"]
    /\ UNCHANGED <<prepare_results, commit_results, outcome,
                   prepared_transactions, lock_order, last_rollback,
                   minutes, blocked>>
    /\ UNCHANGED dbVars
    /\ UNCHANGED simpleVars
    /\ UNCHANGED cbVars
    /\ UNCHANGED retryVars
    /\ UNCHANGED routerVars
    /\ UNCHANGED kafkaVars
    /\ UNCHANGED rateVars
    /\ UNCHANGED ledgerVars

\* One turn of _phase1_prepare's loop; after the last participant, the
\* decision of execute_acid_transfer.
_phase1_prepare(c) ==
    /\ pc[c] = "prepare"
    /\ ~blocked[c]
    /\ LET parts == Participants(ops[c])
           shard_id == parts[Len(prepare_results[c]) + 1]
       IN \E dbok \in BOOLEAN :
            /\ dbok \/ failures < MaxFailures
            /\ failures' = IF dbok THEN failures ELSE failures + 1
            /\ LET vote == IF _acquire_shard_lock(shard_id, ops[c].payment_id)
                           THEN _prepare_shard_transaction(shard_id, ops[c], balance, dbok)
                           ELSE FALSE
                   results == Append(prepare_results[c], vote)
               IN /\ prepare_results' = [prepare_results EXCEPT ![c] = results]
                  /\ lock_order' = [lock_order EXCEPT ![c] = Append(@, shard_id)]
                  /\ prepared_transactions' =
                         session_close(prepared_transactions,
                                       PreparedRows(shard_id, ops[c], vote), FALSE)
                  /\ IF Len(results) < Len(parts)
                     THEN UNCHANGED <<pc, phase>>
                     ELSE IF AllTrue(results)
                     THEN /\ phase' = [phase EXCEPT ![c] = "COMMITTING"]
                          /\ pc' = [pc EXCEPT ![c] = "commit"]
                     ELSE /\ phase' = [phase EXCEPT ![c] = "ABORTING"]
                          /\ pc' = [pc EXCEPT ![c] = "abort"]
    /\ UNCHANGED <<balance, ledger, ops, mgr, commit_results, outcome, replay,
                   transaction_log, last_rollback, minutes, timeout_at, blocked>>
    /\ UNCHANGED simpleVars
    /\ UNCHANGED cbVars
    /\ UNCHANGED retryVars
    /\ UNCHANGED routerVars
    /\ UNCHANGED kafkaVars
    /\ UNCHANGED rateVars
    /\ UNCHANGED ledgerVars

\* One turn of _phase2_commit's loop; after the last participant, the locks
\* are released and execute_acid_transfer looks at the results.
_phase2_commit(c) ==
    /\ pc[c] = "commit"
    /\ LET parts == Participants(ops[c])
           shard_id == parts[Len(commit_results[c]) + 1]
       IN \E fail_at \in 0..Len(CommitStatements) :
            /\ fail_at = 0 \/ failures < MaxFailures
            /\ failures' = IF fail_at = 0 THEN failures ELSE failures + 1
            /\ last_rollback' =
                   IF fail_at = 0 THEN last_rollback
                   ELSE [call |-> c, shard_id |-> shard_id, executed |-> fail_at - 1]
            /\ LET done == _commit_shard_transaction(
                               shard_id, ops[c], <<c, 0>>,
                               [balance |-> balance, ledger |-> ledger,
                                prepared |-> prepared_transactions], fail_at)
                   results == Append(commit_results[c], done.result)
               IN /\ balance' = done.db.balance
                  /\ ledger' = done.db.ledger
                  /\ prepared_transactions' = done.db.prepared
                  /\ commit_results' = [commit_results EXCEPT ![c] = results]
                  /\ IF Len(results) < Len(parts)
                     THEN UNCHANGED <<pc, phase, outcome>>
                     ELSE IF AllTrue(results)
                     THEN /\ phase' = [phase EXCEPT ![c] = "COMMITTED"]
                          /\ outcome' = [outcome EXCEPT ![c] = "COMMITTED"]
                          /\ pc' = [pc EXCEPT ![c] = "sleep"]
                     ELSE \* raise Exception("Partial commit failure ..."), caught below
                          /\ phase' = [phase EXCEPT ![c] = "ABORTING"]
                          /\ outcome' = [outcome EXCEPT ![c] = "RAISED"]
                          /\ pc' = [pc EXCEPT ![c] = "abort"]
    /\ UNCHANGED <<ops, mgr, prepare_results, replay, transaction_log, lock_order,
                   minutes, timeout_at, blocked>>
    /\ UNCHANGED simpleVars
    /\ UNCHANGED cbVars
    /\ UNCHANGED retryVars
    /\ UNCHANGED routerVars
    /\ UNCHANGED kafkaVars
    /\ UNCHANGED rateVars
    /\ UNCHANGED ledgerVars

\* _phase2_abort on every participant, then the ABORTED result or the
\* re-raise of the except block.
_phase2_abort(c) ==
    /\ pc[c] = "abort"
    /\ phase' = [phase EXCEPT ![c] = "ABORTED"]
    /\ outcome' = [outcome EXCEPT ![c] = IF @ = "RAISED" THEN "RAISED" ELSE "ABORTED"]
    /\ pc' = [pc EXCEPT ![c] = "sleep"]
    /\ prepared_transactions' =
           AbortAll(prepared_transactions, ops[c].payment_id, Participants(ops[c]))
    /\ UNCHANGED <<ops, mgr, prepare_results, commit_results, replay,
                   transaction_log, lock_order, last_rollback,
                   minutes, timeout_at, blocked>>
    /\ UNCHANGED dbVars
    /\ UNCHANGED simpleVars
    /\ UNCHANGED cbVars
    /\ UNCHANGED retryVars
    /\ UNCHANGED routerVars
    /\ UNCHANGED kafkaVars
    /\ UNCHANGED rateVars
    /\ UNCHANGED ledgerVars

\* The finally block, after its sleep: the log entry of payment_id is deleted,
\* whichever call's state it holds, and the caller gets the result.  The sleep
\* ends on the coordinator's event loop, so not in the middle of another of
\* its calls.
cleanup(c) ==
    /\ pc[c] = "sleep"
    /\ \A d \in Calls : mgr[d] = mgr[c] => ~Running(d)
    /\ transaction_log' = [transaction_log EXCEPT ![mgr[c]][ops[c].payment_id] = 0]
    /\ pc' = [pc EXCEPT ![c] = "done"]
    /\ UNCHANGED <<ops, mgr, phase, prepare_results, commit_results, outcome, replay,
                   prepared_transactions, lock_order, last_rollback,
                   minutes, timeout_at, blocked>>
    /\ UNCHANGED dbVars
    /\ UNCHANGED simpleVars
    /\ UNCHANGED cbVars
    /\ UNCHANGED retryVars
    /\ UNCHANGED routerVars
    /\ UNCHANGED kafkaVars
    /\ UNCHANGED rateVars
    /\ UNCHANGED ledgerVars

\* A statement of _prepare_shard_transaction that the shard never answers:
\* session.execute has no timeout and nothing reads timeout_at, so the call
\* (and with it the coordinator's event loop) waits from here on.
shard_never_answers(c) ==
    /\ pc[c] = "prepare"
    /\ ~blocked[c]
    /\ blocked' = [blocked EXCEPT ![c] = TRUE]
    /\ UNCHANGED <<pc, ops, mgr, phase, prepare_results, commit_results, outcome,
                   replay, transaction_log, prepared_transactions, lock_order,
                   last_rollback, minutes, timeout_at>>
    /\ UNCHANGED dbVars
    /\ UNCHANGED simpleVars
    /\ UNCHANGED cbVars
    /\ UNCHANGED retryVars
    /\ UNCHANGED routerVars
    /\ UNCHANGED kafkaVars
    /\ UNCHANGED rateVars
    /\ UNCHANGED ledgerVars

\* A minute passes.
minute_passes ==
    /\ minutes < MaxMinutes
    /\ minutes' = minutes + 1
    /\ UNCHANGED <<pc, ops, mgr, phase, prepare_results, commit_results, outcome,
                   replay, transaction_log, prepared_transactions, lock_order,
                   last_rollback, timeout_at, blocked>>
    /\ UNCHANGED dbVars
    /\ UNCHANGED simpleVars
    /\ UNCHANGED cbVars
    /\ UNCHANGED retryVars
    /\ UNCHANGED routerVars
    /\ UNCHANGED kafkaVars
    /\ UNCHANGED rateVars
    /\ UNCHANGED ledgerVars

\* ------------------------------------------------------ shard manager service

NoRq == [from_user |-> "", to_user |-> "", amount |-> 0, amount_cents |-> 0]
NoResult == [found |-> FALSE, balance |-> 0]
NoKey == 0 - 1
\* redis-py's answer for a missing key (None)
NoRoute == "None"

\* The amounts of the requests, in half cents: 0, half a cent (a positive
\* amount below one cent) and the whole cents 1..MaxAmount.
DollarAmounts == {0, 1} \cup {2 * a : a \in 1..MaxAmount}

\* int(amount * 100)
ToCents(amount) == amount \div 2

\* payment_id = str(uuid.uuid4()): a fresh id for every request.
uuid4(r) == r

\* RedisClient.check_rate_limit on the counter of the current window: the
\* counter after the call and whether the request is allowed.  redis_ok =
\* FALSE: a Redis command raises and the check fails open.
check_rate_limit(count, limit, redis_ok) ==
    IF ~redis_ok THEN [allowed |-> TRUE, count |-> count]
    ELSE IF count >= limit THEN [allowed |-> FALSE, count |-> count]
    ELSE [allowed |-> count + 1 <= limit, count |-> count + 1]

\* The rate_limit:<user_id>:* keys after invalidate_user_cache(u) for every
\* u of users.
DeleteRateLimitKeys(keys, users) ==
    [u \in Users |-> IF u \in users THEN 0 ELSE keys[u]]

\* transfer_funds up to the first account read.  (The caller is authenticated
\* as from_user.)
transfer_funds(r) ==
    /\ rpc[r] = "idle"
    /\ \A d \in Reqs : d < r => rpc[d] # "idle"
    /\ \E ft \in Transfers, amount \in DollarAmounts, redis_ok \in BOOLEAN :
          /\ rq' = [rq EXCEPT ![r] = [from_user |-> ft[1], to_user |-> ft[2],
                                      amount |-> amount, amount_cents |-> ToCents(amount)]]
          /\ IF amount <= 0
             THEN /\ response' = [response EXCEPT ![r] = 400]
                  /\ rpc' = [rpc EXCEPT ![r] = "done"]
                  /\ UNCHANGED rateVars
             ELSE LET checked == check_rate_limit(rate_limit[ft[1]], max_requests, redis_ok)
                  IN /\ rate_limit' = [rate_limit EXCEPT ![ft[1]] = checked.count]
                     /\ passed' = [passed EXCEPT ![ft[1]] =
                                       IF checked.allowed THEN @ + 1 ELSE @]
                     /\ IF checked.allowed
                        THEN /\ response' = response
                             /\ rpc' = [rpc EXCEPT ![r] = "read_from"]
                        ELSE /\ response' = [response EXCEPT ![r] = 429]
                             /\ rpc' = [rpc EXCEPT ![r] = "done"]
    /\ UNCHANGED <<from_result, to_result, attempt, balance_cache>>
    /\ UNCHANGED dbVars
    /\ UNCHANGED acidVars
    /\ UNCHANGED cbVars
    /\ UNCHANGED retryVars
    /\ UNCHANGED routerVars
    /\ UNCHANGED kafkaVars
    /\ UNCHANGED ledgerVars

\* The checks of transfer_funds on the two account results, and where the
\* request goes from them.
AfterReads(r, fr, tr) ==
    IF ~fr.found \/ ~tr.found
    THEN /\ response' = [response EXCEPT ![r] = 404]
         /\ rpc' = [rpc EXCEPT ![r] = "done"]
         /\ attempt' = attempt
    ELSE IF fr.balance < rq[r].amount_cents
    THEN /\ response' = [response EXCEPT ![r] = 400]
         /\ rpc' = [rpc EXCEPT ![r] = "done"]
         /\ attempt' = attempt
    ELSE /\ response' = response
         /\ rpc' = [rpc EXCEPT ![r] = "execute_from"]
         /\ attempt' = [attempt EXCEPT ![r] = 1]

\* get_account_from_shard up to its SELECT: the cached balance if there is
\* one, else the row (found), no row or a database error (both: not found).
AccountRead(u, dbok) ==
    IF balance_cache[u] # NoKey THEN [found |-> TRUE, balance |-> balance_cache[u]]
    ELSE IF dbok /\ u \in DOMAIN balance THEN [found |-> TRUE, balance |-> balance[u]]
    ELSE NoResult

\* Whether get_account_from_shard goes on to cache_user_balance.
ReadFillsCache(u, dbok) == balance_cache[u] = NoKey /\ dbok /\ u \in DOMAIN balance

get_account_from(r) ==
    /\ rpc[r] = "read_from"
    /\ \E dbok \in BOOLEAN :
          /\ dbok \/ (failures < MaxFailures /\ balance_cache[rq[r].from_user] = NoKey)
          /\ failures' = IF dbok THEN failures ELSE failures + 1
          /\ from_result' = [from_result EXCEPT ![r] = AccountRead(rq[r].from_user, dbok)]
          /\ rpc' = [rpc EXCEPT ![r] =
                        IF ReadFillsCache(rq[r].from_user, dbok) THEN "cache_from"
                        ELSE "read_to"]
    /\ UNCHANGED <<balance, ledger, rq, to_result, attempt, response, balance_cache>>
    /\ UNCHANGED acidVars
    /\ UNCHANGED cbVars
    /\ UNCHANGED retryVars
    /\ UNCHANGED routerVars
    /\ UNCHANGED kafkaVars
    /\ UNCHANGED rateVars
    /\ UNCHANGED ledgerVars

\* redis_client.cache_user_balance(user_id, balance, 300), with the balance
\* the SELECT returned.
cache_from(r) ==
    /\ rpc[r] = "cache_from"
    /\ balance_cache' = [balance_cache EXCEPT ![rq[r].from_user] = from_result[r].balance]
    /\ rpc' = [rpc EXCEPT ![r] = "read_to"]
    /\ UNCHANGED <<rq, from_result, to_result, attempt, response>>
    /\ UNCHANGED dbVars
    /\ UNCHANGED acidVars
    /\ UNCHANGED cbVars
    /\ UNCHANGED retryVars
    /\ UNCHANGED routerVars
    /\ UNCHANGED kafkaVars
    /\ UNCHANGED rateVars
    /\ UNCHANGED ledgerVars

get_account_to(r) ==
    /\ rpc[r] = "read_to"
    /\ \E dbok \in BOOLEAN :
          /\ dbok \/ (failures < MaxFailures /\ balance_cache[rq[r].to_user] = NoKey)
          /\ failures' = IF dbok THEN failures ELSE failures + 1
          /\ LET tr == AccountRead(rq[r].to_user, dbok)
             IN /\ to_result' = [to_result EXCEPT ![r] = tr]
                /\ IF ReadFillsCache(rq[r].to_user, dbok)
                   THEN /\ rpc' = [rpc EXCEPT ![r] = "cache_to"]
                        /\ UNCHANGED <<attempt, response>>
                   ELSE AfterReads(r, from_result[r], tr)
    /\ UNCHANGED <<balance, ledger, rq, from_result, balance_cache>>
    /\ UNCHANGED acidVars
    /\ UNCHANGED cbVars
    /\ UNCHANGED retryVars
    /\ UNCHANGED routerVars
    /\ UNCHANGED kafkaVars
    /\ UNCHANGED rateVars
    /\ UNCHANGED ledgerVars

cache_to(r) ==
    /\ rpc[r] = "cache_to"
    /\ balance_cache' = [balance_cache EXCEPT ![rq[r].to_user] = to_result[r].balance]
    /\ AfterReads(r, from_result[r], to_result[r])
    /\ UNCHANGED <<rq, from_result, to_result>>
    /\ UNCHANGED dbVars
    /\ UNCHANGED acidVars
    /\ UNCHANGED cbVars
    /\ UNCHANGED retryVars
    /\ UNCHANGED routerVars
    /\ UNCHANGED kafkaVars
    /\ UNCHANGED rateVars
    /\ UNCHANGED ledgerVars

\* retry_async going on to the cache invalidation and the event after a
\* failed attempt
RetryOrGoOn(r) ==
    /\ response' = response
    /\ rpc' = [rpc EXCEPT ![r] = "invalidate"]
    /\ attempt' = attempt

\* retry_async after a failed attempt: the next attempt, or after
\* max_attempts the last exception, which transfer_funds turns into a 500.
RetryOrRaise(r) ==
    IF attempt[r] = max_attempts
    THEN /\ response' = [response EXCEPT ![r] = 500]
         /\ rpc' = [rpc EXCEPT ![r] = "done"]
         /\ attempt' = attempt
    ELSE /\ response' = response
         /\ rpc' = [rpc EXCEPT ![r] = "execute_from"]
         /\ attempt' = [attempt EXCEPT ![r] = @ + 1]

\* What from_session holds when it commits: the debit and its ledger row.
FromSessionBalance(q, bal) == UpdateBalance(bal, q.from_user, 0 - q.amount_cents)
FromSessionLedger(q, pid, by) ==
    {LedgerRow(pid, q.from_user, q.amount_cents, "debit", get_shard_id(q.from_user), by)}

\* What to_session holds when it commits: the credit and its ledger row.
ToSessionBalance(q, bal) == UpdateBalance(bal, q.to_user, q.amount_cents)
ToSessionLedger(q, pid, by) ==
    {LedgerRow(pid, q.to_user, q.amount_cents, "credit", get_shard_id(q.to_user), by)}

\* _execute_transfer up to from_session.commit().  dbok = FALSE: a statement
\* or that commit raises, and both sessions are rolled back.
_execute_transfer_from(r) ==
    /\ rpc[r] = "execute_from"
    /\ \E dbok \in BOOLEAN :
          /\ dbok \/ failures < MaxFailures
          /\ failures' = IF dbok THEN failures ELSE failures + 1
          /\ IF dbok
             THEN /\ balance' = FromSessionBalance(rq[r], balance)
                  /\ ledger' = ledger \cup
                         FromSessionLedger(rq[r], uuid4(r), <<r, attempt[r]>>)
                  /\ rpc' = [rpc EXCEPT ![r] = "execute_to"]
                  /\ UNCHANGED <<attempt, response>>
             ELSE /\ UNCHANGED <<balance, ledger>>
                  /\ RetryOrRaise(r)
    /\ UNCHANGED <<rq, from_result, to_result, balance_cache>>
    /\ UNCHANGED acidVars
    /\ UNCHANGED cbVars
    /\ UNCHANGED retryVars
    /\ UNCHANGED routerVars
    /\ UNCHANGED kafkaVars
    /\ UNCHANGED rateVars
    /\ UNCHANGED ledgerVars

\* to_session.commit().  dbok = FALSE: it raises; the rollback that follows
\* finds from_session already committed.
_execute_transfer_to(r) ==
    /\ rpc[r] = "execute_to"
    /\ \E dbok \in BOOLEAN :
          /\ dbok \/ failures < MaxFailures
          /\ failures' = IF dbok THEN failures ELSE failures + 1
          /\ IF dbok
             THEN /\ balance' = ToSessionBalance(rq[r], balance)
                  /\ ledger' = ledger \cup
                         ToSessionLedger(rq[r], uuid4(r), <<r, attempt[r]>>)
                  /\ rpc' = [rpc EXCEPT ![r] = "invalidate"]
                  /\ UNCHANGED <<attempt, response>>
             ELSE /\ UNCHANGED <<balance, ledger>>
                  /\ RetryOrRaise(r)
    /\ UNCHANGED <<rq, from_result, to_result, balance_cache>>
    /\ UNCHANGED acidVars
    /\ UNCHANGED cbVars
    /\ UNCHANGED retryVars
    /\ UNCHANGED routerVars
    /\ UNCHANGED kafkaVars
    /\ UNCHANGED rateVars
    /\ UNCHANGED ledgerVars

\* kafka_circuit_breaker.call(producer.produce ...) and producer.flush():
\* the event is produced (ok), or the call raises: a Kafka error, the
\* timeout or the open breaker.
Publish(pub, pid, ok) == IF ok THEN pub \cup {pid} ELSE pub

\* After the transfer: invalidate_user_cache for both users, the event
\* (whose failure is caught and printed), and the success response.
transfer_funds_finish(r) ==
    /\ rpc[r] = "invalidate"
    /\ \E ok \in BOOLEAN :
          /\ ok => kafka_up
          /\ published' = Publish(published, uuid4(r), ok)
    /\ UNCHANGED kafka_up
    /\ balance_cache' = [u \in Users |->
                            IF u \in {rq[r].from_user, rq[r].to_user} THEN NoKey
                            ELSE balance_cache[u]]
    /\ shard_route' = [u \in Users |->
                          IF u \in {rq[r].from_user, rq[r].to_user} THEN NoRoute
                          ELSE shard_route[u]]
    /\ rate_limit' = DeleteRateLimitKeys(rate_limit, {rq[r].from_user, rq[r].to_user})
    /\ response' = [response EXCEPT ![r] = 200]
    /\ rpc' = [rpc EXCEPT ![r] = "done"]
    /\ UNCHANGED <<rq, from_result, to_result, attempt>>
    /\ UNCHANGED <<route_result, counts_used, passed>>
    /\ UNCHANGED dbVars
    /\ UNCHANGED acidVars
    /\ UNCHANGED cbVars
    /\ UNCHANGED retryVars
    /\ UNCHANGED ledgerVars

\* A balance:<user_id> key reaches its TTL.
expire_balance(u) ==
    /\ balance_cache[u] # NoKey
    /\ balance_cache' = [balance_cache EXCEPT ![u] = NoKey]
    /\ UNCHANGED <<rpc, rq, from_result, to_result, attempt, response>>
    /\ UNCHANGED dbVars
    /\ UNCHANGED acidVars
    /\ UNCHANGED cbVars
    /\ UNCHANGED retryVars
    /\ UNCHANGED routerVars
    /\ UNCHANGED kafkaVars
    /\ UNCHANGED rateVars
    /\ UNCHANGED ledgerVars

\* Kafka stops accepting messages.
kafka_fails ==
    /\ kafka_up
    /\ kafka_up' = FALSE
    /\ UNCHANGED published
    /\ UNCHANGED <<dbVars, acidVars, simpleVars, cbVars, retryVars, routerVars, rateVars, ledgerVars>>

\* Kafka accepts messages again.
kafka_recovers ==
    /\ ~kafka_up
    /\ kafka_up' = TRUE
    /\ UNCHANGED published
    /\ UNCHANGED <<dbVars, acidVars, simpleVars, cbVars, retryVars, routerVars, rateVars, ledgerVars>>

\* ------------------------------------------------------------ CircuitBreaker

CBCalls == 1..MaxCBCalls
\* The users whose reads and transfers go through mysql_circuit_breaker:
\* one on shard 0, one on shard 1.
CBUsers == {"alice", "user_1"}
\* What the awaited function does: it returns, it raises, or wait_for's
\* timeout expires first.
CBOutcomes == {"ok", "exception", "timeout"}

NoEvent == [kind |-> "none", slot |-> 0, shard |-> 0, was |-> "CLOSED"]

\* CircuitBreaker.__init__ (time.time() is 0 at the start of the model).
CircuitBreaker ==
    [state |-> "CLOSED", failure_count |-> 0, success_count |-> 0,
     last_failure_time |-> 0, last_state_change |-> 0]

\* the check without the reset_timeout
_should_attempt_reset_at_once(b, t) == b.state = "OPEN"

_should_attempt_reset(b, t) ==
    b.state = "OPEN" /\ t - b.last_failure_time >= reset_timeout

\* _record_success closing on the first success of HALF_OPEN
_record_success_first(b, t) ==
    IF b.state = "HALF_OPEN"
    THEN [b EXCEPT !.state = "CLOSED", !.failure_count = 0,
                   !.success_count = 0, !.last_state_change = t]
    ELSE IF b.state = "CLOSED"
         THEN [b EXCEPT !.failure_count = 0]
         ELSE b

_record_success(b, t) ==
    IF b.state = "HALF_OPEN"
    THEN IF b.success_count + 1 >= success_threshold
         THEN [b EXCEPT !.state = "CLOSED", !.failure_count = 0,
                        !.success_count = 0, !.last_state_change = t]
         ELSE [b EXCEPT !.success_count = @ + 1]
    ELSE IF b.state = "CLOSED"
         THEN [b EXCEPT !.failure_count = 0]
         ELSE b

\* _record_failure with > in the place of >= failure_threshold
_record_failure_above(b, t) ==
    LET b1 == [b EXCEPT !.failure_count = @ + 1, !.last_failure_time = t]
    IN IF b.state = "CLOSED"
       THEN IF b1.failure_count > failure_threshold
            THEN [b1 EXCEPT !.state = "OPEN", !.last_state_change = t]
            ELSE b1
       ELSE IF b.state = "HALF_OPEN"
            THEN [b1 EXCEPT !.state = "OPEN", !.success_count = 0,
                            !.last_state_change = t]
            ELSE b1

\* _record_failure without its HALF_OPEN branch
_record_failure_closed_only(b, t) ==
    LET b1 == [b EXCEPT !.failure_count = @ + 1, !.last_failure_time = t]
    IN IF b.state = "CLOSED" /\ b1.failure_count >= failure_threshold
       THEN [b1 EXCEPT !.state = "OPEN", !.last_state_change = t]
       ELSE b1

_record_failure(b, t) ==
    LET b1 == [b EXCEPT !.failure_count = @ + 1, !.last_failure_time = t]
    IN IF b.state = "CLOSED"
       THEN IF b1.failure_count >= failure_threshold
            THEN [b1 EXCEPT !.state = "OPEN", !.last_state_change = t]
            ELSE b1
       ELSE IF b.state = "HALF_OPEN"
            THEN [b1 EXCEPT !.state = "OPEN", !.success_count = 0,
                            !.last_state_change = t]
            ELSE b1

\* call(), lines 80-84: the reset check.
AttemptReset(b, t) ==
    IF _should_attempt_reset(b, t)
    THEN [b EXCEPT !.state = "HALF_OPEN", !.success_count = 0,
                   !.last_state_change = t]
    ELSE b

\* call() without line 87
NoFailFast(b) == FALSE

\* call(), line 87: fail fast.
FailFast(b) == b.state = "OPEN"

\* call() up to its await: the reset check, then either
\* CircuitBreakerException or the start of the wrapped function.
call(k) ==
    /\ cpc[k] = "idle"
    /\ \E u \in CBUsers :
          LET b == AttemptReset(cb, now)
              ev(kind) == [kind |-> kind, slot |-> k, shard |-> get_shard_id(u),
                           was |-> cb.state]
          IN /\ cb' = b
             /\ since_half' = IF cb.state = "OPEN" /\ b.state = "HALF_OPEN"
                              THEN 0 ELSE since_half
             /\ IF FailFast(b)
                THEN /\ cb_event' = ev("rejected")
                     /\ UNCHANGED <<cpc, cuser, admitted_in>>
                ELSE /\ cb_event' = ev("admitted")
                     /\ cpc' = [cpc EXCEPT ![k] = "running"]
                     /\ cuser' = [cuser EXCEPT ![k] = u]
                     /\ admitted_in' = [admitted_in EXCEPT ![k] = b.state]
    /\ UNCHANGED <<now, streak, failed_shards>>
    /\ UNCHANGED <<dbVars, acidVars, simpleVars, retryVars, routerVars, kafkaVars, rateVars, ledgerVars>>

\* call() after its await, lines 99-105: the outcome is recorded and handed
\* to the caller.
call_return(k) ==
    /\ cpc[k] = "running"
    /\ \E res \in CBOutcomes :
          LET ev(kind) == [kind |-> kind, slot |-> k,
                           shard |-> get_shard_id(cuser[k]), was |-> cb.state]
          IN IF res = "ok"
             THEN /\ cb' = _record_success(cb, now)
                  /\ cb_event' = ev("success")
                  /\ streak' = 0
                  /\ since_half' = IF cb.state = "HALF_OPEN"
                                   THEN since_half + 1 ELSE since_half
                  /\ UNCHANGED failed_shards
             ELSE /\ cb.failure_count < MaxFailureCount
                  /\ cb' = _record_failure(cb, now)
                  /\ cb_event' = ev("failure")
                  /\ streak' = streak + 1
                  /\ failed_shards' = failed_shards \cup {get_shard_id(cuser[k])}
                  /\ UNCHANGED since_half
    /\ cpc' = [cpc EXCEPT ![k] = "idle"]
    /\ cuser' = [cuser EXCEPT ![k] = ""]
    /\ admitted_in' = [admitted_in EXCEPT ![k] = ""]
    /\ UNCHANGED now
    /\ UNCHANGED <<dbVars, acidVars, simpleVars, retryVars, routerVars, kafkaVars, rateVars, ledgerVars>>

\* Time passes.
Tick ==
    /\ now + TickSeconds <= MaxTime
    /\ now' = now + TickSeconds
    /\ UNCHANGED <<cb, cpc, cuser, admitted_in, cb_event, streak, since_half,
                   failed_shards>>
    /\ UNCHANGED <<dbVars, acidVars, simpleVars, retryVars, routerVars, kafkaVars, rateVars, ledgerVars>>

\* --------------------------------------------------------------- retry_async

RetryRuns == 1..MaxRuns

\* The exception types func raises: a database connection error and a
\* business error; both are subclasses of Exception.
Raised == {"OperationalError", "HTTPException"}

\* isinstance(e, exc_type) for an exception e of type ty
IsInstance(ty, exc_type) == exc_type = "Exception" \/ exc_type = ty

\* retryable_exceptions as the configurations of retry.py have it
\* ([Exception]), and a list that names the connection error only.
RetryableLists == {<<"Exception">>, <<"OperationalError">>}

RetryConfigs ==
    [max_attempts : 1..MaxAttempts, retryable_exceptions : RetryableLists]

NoConfig == [max_attempts |-> 0, retryable_exceptions |-> <<>>]
NoException == [type |-> "None", at |-> 0]
NoRetryResult == [kind |-> "none", type |-> "None", at |-> 0]

\* the check of line 55 with every exception taken as retryable
AlwaysRetryable(ty, cfg) == TRUE

\* any(isinstance(e, exc_type) for exc_type in config.retryable_exceptions)
IsRetryable(ty, cfg) ==
    \E i \in 1..Len(cfg.retryable_exceptions) :
        IsInstance(ty, cfg.retryable_exceptions[i])

\* the check of line 59 one attempt early
LastAttemptEarly(a, cfg) == a + 1 >= cfg.max_attempts

\* attempt == config.max_attempts
LastAttempt(a, cfg) == a = cfg.max_attempts

\* retry_async is called: the loop starts with attempt 1 and calls func.
retry_async(j) ==
    /\ retry_pc[j] = "idle"
    /\ \A i \in RetryRuns : i < j => retry_pc[i] # "idle"
    /\ \E cfg \in RetryConfigs : config' = [config EXCEPT ![j] = cfg]
    /\ retry_attempt' = [retry_attempt EXCEPT ![j] = 1]
    /\ retry_pc' = [retry_pc EXCEPT ![j] = "calling"]
    /\ UNCHANGED <<sleeps, last_exception, retry_result, calls>>
    /\ UNCHANGED <<dbVars, acidVars, simpleVars, cbVars, routerVars, kafkaVars, rateVars, ledgerVars>>
    /\ UNCHANGED delay_call

\* func returns: retry_async returns its result.
func_returns(j) ==
    /\ retry_pc[j] = "calling"
    /\ calls' = [calls EXCEPT ![j] = Append(@, "ok")]
    /\ retry_result' = [retry_result EXCEPT
                           ![j] = [kind |-> "return", type |-> "None",
                                   at |-> retry_attempt[j]]]
    /\ retry_pc' = [retry_pc EXCEPT ![j] = "returned"]
    /\ UNCHANGED <<config, retry_attempt, sleeps, last_exception>>
    /\ UNCHANGED <<dbVars, acidVars, simpleVars, cbVars, routerVars, kafkaVars, rateVars, ledgerVars>>
    /\ UNCHANGED delay_call

\* The except block of retry_async for an exception of type ty: lines
\* 51-65, and line 68 after the break.
Except(j, ty) ==
    LET e == [type |-> ty, at |-> retry_attempt[j]]
    IN /\ calls' = [calls EXCEPT ![j] = Append(@, ty)]
       /\ last_exception' = [last_exception EXCEPT ![j] = e]
       /\ IF ~IsRetryable(ty, config[j]) \/ LastAttempt(retry_attempt[j], config[j])
          THEN /\ retry_result' = [retry_result EXCEPT
                                      ![j] = [kind |-> "raise", type |-> e.type,
                                              at |-> e.at]]
               /\ retry_pc' = [retry_pc EXCEPT ![j] = "raised"]
               /\ UNCHANGED sleeps
          ELSE /\ sleeps' = [sleeps EXCEPT ![j] = @ + 1]
               /\ retry_pc' = [retry_pc EXCEPT ![j] = "sleeping"]
               /\ UNCHANGED retry_result

\* func raises.
func_raises(j) ==
    /\ retry_pc[j] = "calling"
    /\ \E ty \in Raised : Except(j, ty)
    /\ UNCHANGED <<config, retry_attempt>>
    /\ UNCHANGED <<dbVars, acidVars, simpleVars, cbVars, routerVars, kafkaVars, rateVars, ledgerVars>>
    /\ UNCHANGED delay_call

\* asyncio.sleep(delay) is over: the loop goes on with the next attempt.
sleep_over(j) ==
    /\ retry_pc[j] = "sleeping"
    /\ retry_attempt' = [retry_attempt EXCEPT ![j] = @ + 1]
    /\ retry_pc' = [retry_pc EXCEPT ![j] = "calling"]
    /\ UNCHANGED <<config, sleeps, last_exception, retry_result, calls>>
    /\ UNCHANGED <<dbVars, acidVars, simpleVars, cbVars, routerVars, kafkaVars, rateVars, ledgerVars>>
    /\ UNCHANGED delay_call

\* ------------------------------------------------------- calculate_delay

\* Delays are counted in tenths of a second.  base_delay and max_delay of
\* MYSQL_, REDIS_, KAFKA_ and PAYMENT_RETRY_CONFIG:
BaseDelays == {1, 5, 10}
MaxDelays == {20, 100, 150, 300}

DelayConfigs ==
    [base_delay : BaseDelays, max_delay : MaxDelays,
     exponential_base : {exponential_base}, jitter : BOOLEAN]

DelayAttempts == 1..MaxDelayAttempt

\* random.random() lies in [0, 1): the value k / JitterSteps for k below
\* JitterSteps.
RandomValues == 0..(JitterSteps - 1)

\* A returned delay is counted in 1/Scale of a tenth of a second, so that
\* the product with the jitter factor (JitterSteps + k) / Scale is exact.
Scale == 2 * JitterSteps

Min(a, b) == IF a <= b THEN a ELSE b

RECURSIVE Pow(_, _)
Pow(b, n) == IF n = 0 THEN 1 ELSE b * Pow(b, n - 1)

\* calculate_delay without line 33
calculate_delay_uncapped(a, cfg, k) ==
    LET delay == cfg.base_delay * Pow(cfg.exponential_base, a - 1)
    IN IF cfg.jitter THEN delay * (JitterSteps + k) ELSE delay * Scale

\* calculate_delay(attempt, config), with k the value random.random() gives
calculate_delay(a, cfg, k) ==
    LET delay == cfg.base_delay * Pow(cfg.exponential_base, a - 1)
        capped == Min(delay, cfg.max_delay)
    IN IF cfg.jitter THEN capped * (JitterSteps + k) ELSE capped * Scale

NoDelayCall ==
    [done |-> FALSE, attempt |-> 0,
     config |-> [base_delay |-> 0, max_delay |-> 0, exponential_base |-> 0,
                 jitter |-> FALSE],
     random |-> 0, result |-> 0]

\* The call of calculate_delay that a behaviour looks at; the call and what
\* it returned are kept.
calculate_delay_call ==
    /\ ~delay_call.done
    /\ \E a \in DelayAttempts, cfg \in DelayConfigs, k \in RandomValues :
          delay_call' = [done |-> TRUE, attempt |-> a, config |-> cfg,
                         random |-> k, result |-> calculate_delay(a, cfg, k)]
    /\ UNCHANGED <<retry_pc, config, retry_attempt, sleeps, last_exception,
                   retry_result, calls>>
    /\ UNCHANGED <<dbVars, acidVars, simpleVars, cbVars, routerVars, kafkaVars, rateVars, ledgerVars>>

\* ------------------------------------------- execute_transfer_with_retry

PAYMENT_RETRY_CONFIG ==
    [max_attempts |-> max_attempts, retryable_exceptions |-> <<"Exception">>]

\* execute_transfer_with_retry: retry_async(_execute_transfer,
\* PAYMENT_RETRY_CONFIG) starts its loop.
execute_transfer_with_retry(j) ==
    /\ retry_pc[j] = "idle"
    /\ \A i \in RetryRuns : i < j => retry_pc[i] # "idle"
    /\ config' = [config EXCEPT ![j] = PAYMENT_RETRY_CONFIG]
    /\ retry_attempt' = [retry_attempt EXCEPT ![j] = 1]
    /\ retry_pc' = [retry_pc EXCEPT ![j] = "calling"]
    /\ UNCHANGED <<sleeps, last_exception, retry_result, calls>>
    /\ UNCHANGED <<dbVars, acidVars, simpleVars, cbVars, routerVars, kafkaVars, rateVars, ledgerVars>>
    /\ UNCHANGED delay_call

\* One attempt, up to the await of mysql_circuit_breaker.call: the reset
\* check, then either CircuitBreakerException, which retry_async's except
\* block receives, or the start of _execute_transfer.  (The history
\* variables of the breaker's own calls are not kept for these calls.)
_execute_transfer_call(j) ==
    /\ retry_pc[j] = "calling"
    /\ LET b == AttemptReset(cb, now)
       IN /\ cb' = b
          /\ IF FailFast(b)
             THEN Except(j, "CircuitBreakerException")
             ELSE /\ retry_pc' = [retry_pc EXCEPT ![j] = "in_func"]
                  /\ UNCHANGED <<sleeps, last_exception, retry_result, calls>>
    /\ UNCHANGED <<config, retry_attempt>>
    /\ UNCHANGED <<now, cpc, cuser, admitted_in, cb_event, streak, since_half,
                   failed_shards>>
    /\ UNCHANGED <<dbVars, acidVars, simpleVars, routerVars, kafkaVars, rateVars, ledgerVars>>
    /\ UNCHANGED delay_call

\* The attempt after its await: the breaker records the outcome, and
\* retry_async returns the result or receives the exception.
_execute_transfer_return(j) ==
    /\ retry_pc[j] = "in_func"
    /\ \E res \in CBOutcomes :
          IF res = "ok"
          THEN /\ cb' = _record_success(cb, now)
               /\ calls' = [calls EXCEPT ![j] = Append(@, "ok")]
               /\ retry_result' = [retry_result EXCEPT
                                      ![j] = [kind |-> "return", type |-> "None",
                                              at |-> retry_attempt[j]]]
               /\ retry_pc' = [retry_pc EXCEPT ![j] = "returned"]
               /\ UNCHANGED <<sleeps, last_exception>>
          ELSE /\ cb.failure_count < MaxFailureCount
               /\ cb' = _record_failure(cb, now)
               /\ Except(j, IF res = "timeout" THEN "TimeoutError"
                            ELSE "OperationalError")
    /\ UNCHANGED <<config, retry_attempt>>
    /\ UNCHANGED <<now, cpc, cuser, admitted_in, cb_event, streak, since_half,
                   failed_shards>>
    /\ UNCHANGED <<dbVars, acidVars, simpleVars, routerVars, kafkaVars, rateVars, ledgerVars>>
    /\ UNCHANGED delay_call

\* ------------------------------------------------------------ shard routing

\* The shard counts managers are started with: TOTAL_SHARDS of this
\* deployment and of one with twice the shards.
ShardCounts == {total_shards, 2 * total_shards}

NoRouteResult == [user |-> "", total_shards |-> 0, shard_id |-> 0, hit |-> FALSE]

\* str(shard_id) and int(value) for the shard ids of the model
ShardStr == <<"0", "1", "2", "3", "4", "5", "6", "7">>
str(shard_id) == ShardStr[shard_id + 1]
int(value) == CHOOSE n \in 0..(Len(ShardStr) - 1) : ShardStr[n + 1] = value

\* the hash of the user id taken modulo the length of the id
ShardByLength(u, n) == Len(u) % n

\* int(hashlib.md5(user_id.encode()).hexdigest(), 16) % self.total_shards,
\* for a total_shards that divides 256
ShardByHash(u, n) == Md5LowByte(u) % n

\* RedisClient.get_shard_route: the key's value as an int, None for a
\* missing key, an empty value or a Redis error (redis_ok = FALSE).
get_shard_route(route, u, redis_ok) ==
    IF redis_ok /\ route[u] # NoRoute /\ route[u] # ""
    THEN int(route[u]) ELSE NoKey

\* RedisClient.cache_shard_route: SETEX, nothing on a Redis error.
cache_shard_route(route, u, shard_id, redis_ok) ==
    IF redis_ok THEN [route EXCEPT ![u] = str(shard_id)] ELSE route

\* SimpleShardManager.get_shard_id of a manager with n shards.
get_shard_id_cached(n, u) ==
    /\ \E get_ok, set_ok \in BOOLEAN :
          LET cached_shard == get_shard_route(shard_route, u, get_ok)
          IN IF cached_shard # NoKey
             THEN /\ route_result' = [user |-> u, total_shards |-> n,
                                      shard_id |-> cached_shard, hit |-> TRUE]
                  /\ UNCHANGED shard_route
             ELSE /\ route_result' = [user |-> u, total_shards |-> n,
                                      shard_id |-> ShardByHash(u, n), hit |-> FALSE]
                  /\ shard_route' = cache_shard_route(shard_route, u,
                                                      ShardByHash(u, n), set_ok)
    /\ counts_used' = counts_used \cup {n}
    /\ UNCHANGED <<dbVars, acidVars, simpleVars, cbVars, retryVars, kafkaVars, rateVars, ledgerVars>>

\* RedisClient.invalidate_user_cache: the user's balance, shard_route and
\* rate_limit keys are deleted.
invalidate_user_cache(u) ==
    /\ shard_route' = [shard_route EXCEPT ![u] = NoRoute]
    /\ balance_cache' = [balance_cache EXCEPT ![u] = NoKey]
    /\ rate_limit' = DeleteRateLimitKeys(rate_limit, {u})
    /\ UNCHANGED <<route_result, counts_used, passed>>
    /\ UNCHANGED <<rpc, rq, from_result, to_result, attempt, response>>
    /\ UNCHANGED <<dbVars, acidVars, cbVars, retryVars, kafkaVars, ledgerVars>>

\* A transfer_funds request of user u reaches the rate-limit check.
rate_limited_request(u) ==
    /\ passed[u] < MaxPassed
    /\ \E redis_ok \in BOOLEAN :
          LET checked == check_rate_limit(rate_limit[u], max_requests, redis_ok)
          IN /\ rate_limit' = [rate_limit EXCEPT ![u] = checked.count]
             /\ passed' = [passed EXCEPT ![u] = IF checked.allowed THEN @ + 1 ELSE @]
    /\ UNCHANGED <<dbVars, acidVars, simpleVars, cbVars, retryVars, routerVars,
                   kafkaVars, ledgerVars>>

\* A transfer from from_user to to_user that passed the check in this window
\* has been executed: transfer_funds invalidates the cache of both users.
transfer_completes(from_user, to_user) ==
    /\ from_user # to_user
    /\ passed[from_user] > 0
    /\ rate_limit' = DeleteRateLimitKeys(rate_limit, {from_user, to_user})
    /\ balance_cache' = [u \in Users |->
                            IF u \in {from_user, to_user} THEN NoKey
                            ELSE balance_cache[u]]
    /\ shard_route' = [u \in Users |->
                          IF u \in {from_user, to_user} THEN NoRoute
                          ELSE shard_route[u]]
    /\ UNCHANGED <<route_result, counts_used, passed>>
    /\ UNCHANGED <<rpc, rq, from_result, to_result, attempt, response>>
    /\ UNCHANGED <<dbVars, acidVars, cbVars, retryVars, kafkaVars, ledgerVars>>

\* The 60-second window ends: the next requests count on a new key.
window_ends ==
    /\ \E u \in Users : passed[u] > 0
    /\ rate_limit' = [u \in Users |-> 0]
    /\ passed' = [u \in Users |-> 0]
    /\ UNCHANGED <<dbVars, acidVars, simpleVars, cbVars, retryVars, routerVars,
                   kafkaVars, ledgerVars>>

\* A shard_route:<user_id> key reaches its TTL.
expire_route(u) ==
    /\ shard_route[u] # NoRoute
    /\ shard_route' = [shard_route EXCEPT ![u] = NoRoute]
    /\ UNCHANGED <<route_result, counts_used>>
    /\ UNCHANGED <<dbVars, acidVars, simpleVars, cbVars, retryVars, kafkaVars, rateVars, ledgerVars>>

\* ------------------------------------------------------------ ledger service

LedgerReqs == 1..MaxLedgerReqs
NoLedgerReq == [from_user |-> "", to_user |-> "", amount_cents |-> 0]

\* The (from_user_id, to_user_id) pairs of the requests: within one shard and
\* across two, in both directions.
LedgerTransfers == {<<"alice", "bob">>, <<"bob", "alice">>,
                    <<"alice", "user_1">>, <<"user_1", "alice">>}

\* The row the request's current SELECT ... FOR UPDATE asks for.
Wanted(p) ==
    IF lpc[p] = "select_from" THEN lreq[p].from_user ELSE lreq[p].to_user

\* The request's statement waits for a row lock of another transaction.
Waits(p) ==
    /\ lpc[p] \in {"select_from", "select_to"}
    /\ row_lock[Wanted(p)] \notin {0, p}

\* conn.rollback() or conn.commit() on the request's connections: its row
\* locks are released.
ReleaseLocks(locks, p) == [u \in Existing |-> IF locks[u] = p THEN 0 ELSE locks[u]]

\* transfer_money up to its first statement.  The requests run in separate
\* worker processes of the service.
transfer_money(p) ==
    /\ lpc[p] = "idle"
    /\ \A d \in LedgerReqs : d < p => lpc[d] # "idle"
    /\ \E ft \in LedgerTransfers, a \in 1..MaxAmount :
          lreq' = [lreq EXCEPT ![p] = [from_user |-> ft[1], to_user |-> ft[2],
                                      amount_cents |-> a]]
    /\ lpc' = [lpc EXCEPT ![p] = "select_from"]
    /\ UNCHANGED <<row_lock, lresp, in_cycle>>
    /\ UNCHANGED <<dbVars, acidVars, simpleVars, cbVars, retryVars, routerVars,
                   kafkaVars, rateVars>>

\* SELECT balance ... FOR UPDATE on the sender's row, once the row is free,
\* and the balance check (its failure: rollback and 400).
select_from(p) ==
    /\ lpc[p] = "select_from"
    /\ ~Waits(p)
    /\ IF balance[lreq[p].from_user] < lreq[p].amount_cents
       THEN /\ row_lock' = ReleaseLocks(row_lock, p)
            /\ lresp' = [lresp EXCEPT ![p] = 400]
            /\ lpc' = [lpc EXCEPT ![p] = "done"]
       ELSE /\ row_lock' = [row_lock EXCEPT ![lreq[p].from_user] = p]
            /\ lresp' = lresp
            /\ lpc' = [lpc EXCEPT ![p] = "select_to"]
    /\ UNCHANGED <<lreq, in_cycle>>
    /\ UNCHANGED <<dbVars, acidVars, simpleVars, cbVars, retryVars, routerVars,
                   kafkaVars, rateVars>>

\* SELECT balance ... FOR UPDATE on the recipient's row, once the row is free.
select_to(p) ==
    /\ lpc[p] = "select_to"
    /\ ~Waits(p)
    /\ row_lock' = [row_lock EXCEPT ![lreq[p].to_user] = p]
    /\ lpc' = [lpc EXCEPT ![p] = "write"]
    /\ UNCHANGED <<lreq, lresp, in_cycle>>
    /\ UNCHANGED <<dbVars, acidVars, simpleVars, cbVars, retryVars, routerVars,
                   kafkaVars, rateVars>>

\* The two UPDATEs, the two INSERTs and the commits; the locks are released.
write_and_commit(p) ==
    /\ lpc[p] = "write"
    /\ balance' = UpdateBalance(UpdateBalance(balance, lreq[p].from_user,
                                              0 - lreq[p].amount_cents),
                                lreq[p].to_user, lreq[p].amount_cents)
    /\ ledger' = ledger \cup
          {LedgerRow(uuid4(p), lreq[p].from_user, lreq[p].amount_cents, "debit",
                     get_shard_id(lreq[p].from_user), <<p, 0>>),
           LedgerRow(uuid4(p), lreq[p].to_user, lreq[p].amount_cents, "credit",
                     get_shard_id(lreq[p].to_user), <<p, 0>>)}
    /\ row_lock' = ReleaseLocks(row_lock, p)
    /\ lresp' = [lresp EXCEPT ![p] = 200]
    /\ lpc' = [lpc EXCEPT ![p] = "done"]
    /\ UNCHANGED <<failures, lreq, in_cycle>>
    /\ UNCHANGED <<acidVars, simpleVars, cbVars, retryVars, routerVars,
                   kafkaVars, rateVars>>

\* A lock wait that never ends.
lock_wait_forever(p) ==
    /\ FALSE
    /\ UNCHANGED vars

\* The waiting SELECT ... FOR UPDATE raises: MySQL ends a lock wait with
\* error 1213 (deadlock found, within one server) or 1205 (lock wait timeout
\* exceeded).  transfer_money rolls back and answers 500.
lock_wait_error(p) ==
    /\ Waits(p)
    /\ in_cycle' = [in_cycle EXCEPT ![p] =
                        LET q == row_lock[Wanted(p)]
                        IN Waits(q) /\ row_lock[Wanted(q)] = p]
    /\ row_lock' = ReleaseLocks(row_lock, p)
    /\ lresp' = [lresp EXCEPT ![p] = 500]
    /\ lpc' = [lpc EXCEPT ![p] = "done"]
    /\ UNCHANGED lreq
    /\ UNCHANGED <<dbVars, acidVars, simpleVars, cbVars, retryVars, routerVars,
                   kafkaVars, rateVars>>

\* ---------------------------------------------------------- specifications

InitDB ==
    /\ balance = InitBalance
    /\ ledger = {}
    /\ failures = 0

InitACID ==
    /\ pc = [c \in Calls |-> "idle"]
    /\ ops = [c \in Calls |-> NoOps]
    /\ mgr = [c \in Calls |-> 0]
    /\ phase = [c \in Calls |-> "NONE"]
    /\ prepare_results = [c \in Calls |-> <<>>]
    /\ commit_results = [c \in Calls |-> <<>>]
    /\ outcome = [c \in Calls |-> "NONE"]
    /\ replay = [c \in Calls |-> 0]
    /\ transaction_log = [m \in Managers |-> [p \in PaymentIds |-> 0]]
    /\ prepared_transactions = {}
    /\ lock_order = [c \in Calls |-> <<>>]
    /\ last_rollback = NoRollback
    /\ minutes = 0
    /\ timeout_at = [c \in Calls |-> 0]
    /\ blocked = [c \in Calls |-> FALSE]

InitSimple ==
    /\ rpc = [r \in Reqs |-> "idle"]
    /\ rq = [r \in Reqs |-> NoRq]
    /\ from_result = [r \in Reqs |-> NoResult]
    /\ to_result = [r \in Reqs |-> NoResult]
    /\ attempt = [r \in Reqs |-> 0]
    /\ response = [r \in Reqs |-> 0]
    /\ balance_cache = [u \in Users |-> NoKey]

InitCB ==
    /\ cb = CircuitBreaker
    /\ now = 0
    /\ cpc = [k \in CBCalls |-> "idle"]
    /\ cuser = [k \in CBCalls |-> ""]
    /\ admitted_in = [k \in CBCalls |-> ""]
    /\ cb_event = NoEvent
    /\ streak = 0
    /\ since_half = 0
    /\ failed_shards = {}

InitRetry ==
    /\ retry_pc = [j \in RetryRuns |-> "idle"]
    /\ config = [j \in RetryRuns |-> NoConfig]
    /\ retry_attempt = [j \in RetryRuns |-> 0]
    /\ sleeps = [j \in RetryRuns |-> 0]
    /\ last_exception = [j \in RetryRuns |-> NoException]
    /\ retry_result = [j \in RetryRuns |-> NoRetryResult]
    /\ calls = [j \in RetryRuns |-> <<>>]
    /\ delay_call = NoDelayCall

InitRouter ==
    /\ shard_route = [u \in Users |-> NoRoute]
    /\ route_result = NoRouteResult
    /\ counts_used = {}

InitKafka ==
    /\ kafka_up = TRUE
    /\ published = {}

InitRate ==
    /\ rate_limit = [u \in Users |-> 0]
    /\ passed = [u \in Users |-> 0]

InitLedger ==
    /\ lpc = [p \in LedgerReqs |-> "idle"]
    /\ lreq = [p \in LedgerReqs |-> NoLedgerReq]
    /\ row_lock = [u \in Existing |-> 0]
    /\ lresp = [p \in LedgerReqs |-> 0]
    /\ in_cycle = [p \in LedgerReqs |-> FALSE]

Init ==
    /\ InitDB /\ InitACID /\ InitSimple /\ InitCB /\ InitRetry /\ InitRouter
    /\ InitKafka /\ InitRate /\ InitLedger

NextACID ==
    \E c \in Calls :
        \/ execute_acid_transfer(c)
        \/ _phase1_prepare(c)
        \/ _phase2_commit(c)
        \/ _phase2_abort(c)
        \/ cleanup(c)

SpecACID == Init /\ [][NextACID]_vars

NextSimple ==
    \/ \E r \in Reqs :
          \/ transfer_funds(r)
          \/ get_account_from(r)
          \/ cache_from(r)
          \/ get_account_to(r)
          \/ cache_to(r)
          \/ _execute_transfer_from(r)
          \/ _execute_transfer_to(r)
          \/ transfer_funds_finish(r)
    \/ \E u \in Users : expire_balance(u)
    \/ kafka_fails
    \/ kafka_recovers

SpecSimple == Init /\ [][NextSimple]_vars

\* One transfer_funds request and the event bus.  The request goes on
\* whenever it can (the event loop runs it); nothing is required of Kafka.
RequestStep(r) ==
    \/ transfer_funds(r)
    \/ get_account_from(r)
    \/ cache_from(r)
    \/ get_account_to(r)
    \/ cache_to(r)
    \/ _execute_transfer_from(r)
    \/ _execute_transfer_to(r)
    \/ transfer_funds_finish(r)

NextPublish ==
    \/ RequestStep(1)
    \/ \E u \in Users : expire_balance(u)
    \/ kafka_fails
    \/ kafka_recovers

SpecPublish == Init /\ [][NextPublish]_vars /\ WF_vars(RequestStep(1))

\* One execute_acid_transfer with a clock and a shard that may never answer.
TransferStep(c) ==
    \/ execute_acid_transfer(c)
    \/ _phase1_prepare(c)
    \/ _phase2_commit(c)
    \/ _phase2_abort(c)
    \/ cleanup(c)

NextTimeout ==
    \/ TransferStep(1)
    \/ shard_never_answers(1)
    \/ minute_passes

SpecTimeout ==
    Init /\ [][NextTimeout]_vars /\ WF_vars(TransferStep(1)) /\ WF_vars(minute_passes)

NextCB ==
    \/ \E k \in CBCalls :
          \/ call(k)
          \/ call_return(k)
    \/ Tick

SpecCB == Init /\ [][NextCB]_vars

NextRetry ==
    \E j \in RetryRuns :
        \/ retry_async(j)
        \/ func_returns(j)
        \/ func_raises(j)
        \/ sleep_over(j)

SpecRetry == Init /\ [][NextRetry]_vars

NextGuarded ==
    \/ \E j \in RetryRuns :
          \/ execute_transfer_with_retry(j)
          \/ _execute_transfer_call(j)
          \/ _execute_transfer_return(j)
          \/ sleep_over(j)
    \/ Tick

SpecGuarded == Init /\ [][NextGuarded]_vars

NextDelay == calculate_delay_call

SpecDelay == Init /\ [][NextDelay]_vars

NextRouter ==
    \E u \in Users :
        \/ \E n \in ShardCounts : get_shard_id_cached(n, u)
        \/ invalidate_user_cache(u)
        \/ expire_route(u)

SpecRouter == Init /\ [][NextRouter]_vars

\* The users whose requests the rate limiter is watched for.
RateUsers == {"alice", "user_1"}

NextRate ==
    \/ \E u \in RateUsers : rate_limited_request(u)
    \/ \E f, t \in RateUsers : transfer_completes(f, t)
    \/ window_ends

SpecRate == Init /\ [][NextRate]_vars

\* The statements of one /payment/transfer request: the worker runs them
\* whenever the database lets it, and the database ends a lock wait.
LedgerStep(p) ==
    \/ select_from(p)
    \/ select_to(p)
    \/ write_and_commit(p)
    \/ lock_wait_error(p)

NextLedger ==
    \E p \in LedgerReqs :
        \/ transfer_money(p)
        \/ LedgerStep(p)

SpecLedger ==
    Init /\ [][NextLedger]_vars /\ \A p \in LedgerReqs : WF_vars(LedgerStep(p))

\* -------------------------------------------------------------- properties

RECURSIVE SumAmount(_)
SumAmount(S) ==
    IF S = {} THEN 0
    ELSE LET e == CHOOSE x \in S : TRUE IN e.amount + SumAmount(S \ {e})

\* The ledger's account of a balance: the credits less the debits.
LedgerNet(u) ==
    SumAmount({e \in ledger : e.account_id = u /\ e.direction = "credit"})
    - SumAmount({e \in ledger : e.account_id = u /\ e.direction = "debit"})

\* Every change of a balance came with its ledger row.
BalanceMatchesLedger ==
    \A u \in Existing : balance[u] = InitBalance[u] + LedgerNet(u)

RowsBy(by) == {e \in ledger : e.by = by}
RowsOf(pid, direction) ==
    {e \in ledger : e.payment_id = pid /\ e.direction = direction}
Applied(c, direction) == \E e \in RowsBy(<<c, 0>>) : e.direction = direction
VotedNo(c) == \E i \in 1..Len(prepare_results[c]) : ~prepare_results[c][i]
Returned(c) == pc[c] \in {"sleep", "done"}

\* C1: whenever a transaction's phase is COMMITTED or ABORTED, the sender's
\* debit and the receiver's credit have both been applied or neither has
\* (for a positive amount), also after a commit failed on one participant.
C1_AllOrNothing ==
    \A c \in Calls :
        (phase[c] \in {"COMMITTED", "ABORTED"} /\ ops[c].amount_cents > 0)
            => (Applied(c, "debit") <=> Applied(c, "credit"))

\* C2: with positive amounts, distinct payment ids and non-negative initial
\* balances, no balance is negative in any reachable state, however the
\* calls interleave.
C2_NeverNegative ==
    ( /\ \A c \in Calls : pc[c] # "idle" => ops[c].amount_cents > 0
      /\ \A c, d \in Calls : (c # d /\ pc[c] # "idle" /\ pc[d] # "idle")
                                => ops[c].payment_id # ops[d].payment_id )
        => \A u \in Existing : balance[u] >= 0

\* C3: a call whose payment_id has a terminal result in the coordinator log,
\* made with the same payload and a positive amount, executes nothing (it
\* adds no ledger row and changes no balance) and returns the stored result.
C3_ReplayReturnsStored ==
    \A c \in Calls :
        (replay[c] # 0 /\ ops[c] = ops[replay[c]] /\ ops[c].amount_cents > 0) =>
            /\ RowsBy(<<c, 0>>) = {}
            /\ Returned(c) => outcome[c] = outcome[replay[c]]

\* C4: for every call that returns COMMITTED (for a positive amount), the
\* ledger holds exactly one debit row of its payment_id (from_user, on
\* from_user's shard) and exactly one credit row (to_user, on to_user's
\* shard), both of amount_cents.
C4_OneDebitOneCredit ==
    \A c \in Calls :
        (outcome[c] = "COMMITTED" /\ ops[c].amount_cents > 0) =>
            LET o == ops[c]
                D == RowsOf(o.payment_id, "debit")
                K == RowsOf(o.payment_id, "credit")
            IN /\ Cardinality(D) = 1
               /\ Cardinality(K) = 1
               /\ \A e \in D : /\ e.account_id = o.from_user
                                /\ e.shard = o.from_shard
                                /\ e.amount = o.amount_cents
               /\ \A e \in K : /\ e.account_id = o.to_user
                                /\ e.shard = o.to_shard
                                /\ e.amount = o.amount_cents

\* C5: a transfer within one shard of an amount the sender has, run alone
\* and without a shard failure, returns COMMITTED, takes amount_cents from
\* the sender, gives it to the receiver and keeps the sum of the balances.
C5_SameShardTransfer ==
    \A c \in Calls :
        LET o == ops[c] IN
        ( /\ Returned(c)
          /\ o.from_shard = o.to_shard
          /\ o.from_user # o.to_user
          /\ o.from_user \in Existing /\ o.to_user \in Existing
          /\ o.amount_cents <= InitBalance[o.from_user]
          /\ failures = 0
          /\ \A d \in Calls \ {c} : pc[d] = "idle" )
        => /\ outcome[c] = "COMMITTED"
           /\ balance[o.from_user] = InitBalance[o.from_user] - o.amount_cents
           /\ balance[o.to_user] = InitBalance[o.to_user] + o.amount_cents
           /\ SumAmount({[account_id |-> u, amount |-> balance[u]] : u \in Existing})
                = SumAmount({[account_id |-> u, amount |-> InitBalance[u]] : u \in Existing})

\* C6: a call in which some participant voted no never commits on any shard:
\* it adds no ledger row, no balance changes but with a ledger row of a call
\* that did commit, and it ends with phase ABORTED and status ABORTED.
C6_NoVoteAborts ==
    /\ BalanceMatchesLedger
    /\ \A c \in Calls :
          VotedNo(c) =>
              /\ RowsBy(<<c, 0>>) = {}
              /\ commit_results[c] = <<>>
              /\ pc[c] # "commit"
              /\ Returned(c) => (phase[c] = "ABORTED" /\ outcome[c] = "ABORTED")

\* A cross-shard call whose sender's shard voted no and whose recipient's
\* shard voted yes has returned, while another call has committed rows.
C6_Witness ==
    \E c \in Calls :
        /\ pc[c] = "done"
        /\ Len(prepare_results[c]) = 2
        /\ VotedNo(c)
        /\ \E i \in 1..2 : prepare_results[c][i]
        /\ outcome[c] = "ABORTED"
        /\ ledger # {}

\* C7: once an attempt of _execute_transfer has returned or raised, its
\* debit (with its ledger row) and its credit (with its ledger row) are both
\* committed or neither is.
C7_AttemptAtomic ==
    \A r \in Reqs : \A k \in 1..max_attempts :
        (k < attempt[r] \/ (k = attempt[r] /\ rpc[r] \in {"invalidate", "done"}))
            => ((\E e \in RowsBy(<<r, k>>) : e.direction = "debit")
                  <=> (\E e \in RowsBy(<<r, k>>) : e.direction = "credit"))

\* C8: for any payment_id at most one debit row and at most one credit row
\* are written, however many attempts execute_transfer_with_retry makes.
C8_AtMostOnce ==
    \A r \in Reqs :
        /\ Cardinality(RowsOf(uuid4(r), "debit")) <= 1
        /\ Cardinality(RowsOf(uuid4(r), "credit")) <= 1

\* C9: under any interleaving of transfer_funds requests, without any shard
\* failure, no balance becomes negative.
C9_NeverNegative ==
    failures = 0 => \A u \in Existing : balance[u] >= 0

\* C10: every call that has ended hands its caller a COMMITTED or ABORTED
\* result, never an exception.
C10_AlwaysAResult ==
    \A c \in Calls : pc[c] = "done" => outcome[c] \in {"COMMITTED", "ABORTED"}

\* C11: a call with amount_cents <= 0 is rejected before any shard operation:
\* no participant is asked to prepare or to commit, and the call writes no
\* ledger row and changes no balance.
C11_RejectsNonPositive ==
    \A c \in Calls :
        (pc[c] # "idle" /\ ops[c].amount_cents <= 0) =>
            /\ prepare_results[c] = <<>>
            /\ commit_results[c] = <<>>
            /\ RowsBy(<<c, 0>>) = {}

\* ----------------------------------------------- properties: CircuitBreaker

\* The step is a call() reaching its admission or its rejection.
CallStep ==
    /\ now' = now
    /\ cb_event'.kind \in {"admitted", "rejected"}
    /\ <<cb, cpc, cb_event>>' # <<cb, cpc, cb_event>>

\* The step records a success ("success") or a failure ("failure").
RecordStep(kind) ==
    /\ now' = now
    /\ cb_event'.kind = kind
    /\ cb_event' # cb_event

\* C12: a CLOSED breaker opens exactly at the step that records the
\* failure_threshold-th failure with no success recorded in between (so
\* never on fewer consecutive failures), a success recorded while CLOSED
\* sets failure_count to 0, and CLOSED is left for no other state than OPEN.
C12_OpensAtThreshold ==
    [][ cb.state = "CLOSED" =>
          /\ (cb'.state = "OPEN")
                <=> (RecordStep("failure") /\ streak' = failure_threshold)
          /\ RecordStep("success") => cb'.failure_count = 0
          /\ cb'.state \in {"CLOSED", "OPEN"} ]_vars

\* The breaker has just opened on the third failure in a row, the failures
\* coming from calls of both shards.
C12_Witness ==
    /\ cb.state = "OPEN"
    /\ cb_event.kind = "failure"
    /\ cb_event.was = "CLOSED"
    /\ streak = failure_threshold
    /\ cb.failure_count = failure_threshold
    /\ Cardinality(failed_shards) = 2

\* C13: a call() made while the breaker is OPEN and less than reset_timeout
\* has passed since the last recorded failure raises CircuitBreakerException
\* without starting the wrapped function, and leaves the breaker's fields
\* as they were.
C13_OpenFailsFast ==
    [][ (cb.state = "OPEN" /\ now - cb.last_failure_time < reset_timeout
           /\ CallStep)
          => /\ cb_event'.kind = "rejected"
             /\ cb' = cb
             /\ cpc' = cpc ]_vars

\* A call has been rejected by the OPEN breaker before the reset_timeout,
\* some time after the breaker opened, while an earlier call is in flight.
C13_Witness ==
    /\ cb.state = "OPEN"
    /\ cb_event.kind = "rejected"
    /\ cb_event.was = "OPEN"
    /\ now > cb.last_failure_time
    /\ now - cb.last_failure_time < reset_timeout
    /\ \E k \in CBCalls : cpc[k] = "running"

\* C14: the breaker leaves OPEN only in a call() made when at least
\* reset_timeout has passed since the last recorded failure; that call sets
\* HALF_OPEN with success_count 0 and starts the wrapped function.
C14_LeavesOpenByTrial ==
    [][ (cb.state = "OPEN" /\ cb'.state # "OPEN")
          => /\ now - cb.last_failure_time >= reset_timeout
             /\ cb'.state = "HALF_OPEN"
             /\ cb'.success_count = 0
             /\ cb_event'.kind = "admitted"
             /\ cpc[cb_event'.slot] = "idle"
             /\ cpc'[cb_event'.slot] = "running" ]_vars

\* The trial call that took the breaker from OPEN to HALF_OPEN is in flight.
C14_Witness ==
    /\ cb.state = "HALF_OPEN"
    /\ cb_event.kind = "admitted"
    /\ cb_event.was = "OPEN"
    /\ cpc[cb_event.slot] = "running"
    /\ cb.success_count = 0
    /\ now - cb.last_failure_time >= reset_timeout

\* C15: a HALF_OPEN breaker closes exactly at the step that records the
\* success_threshold-th success since it entered HALF_OPEN, and on closing
\* failure_count and success_count are 0.
C15_ClosesAtThreshold ==
    [][ cb.state = "HALF_OPEN" =>
          /\ (cb'.state = "CLOSED")
                <=> (RecordStep("success") /\ since_half' = success_threshold)
          /\ cb'.state = "CLOSED"
                => (cb'.failure_count = 0 /\ cb'.success_count = 0) ]_vars

\* The breaker has just closed on the second success since HALF_OPEN.
C15_Witness ==
    /\ cb.state = "CLOSED"
    /\ cb_event.kind = "success"
    /\ cb_event.was = "HALF_OPEN"
    /\ since_half = success_threshold
    /\ cb.failure_count = 0
    /\ cb.success_count = 0

\* C16: a failure recorded while the breaker is HALF_OPEN opens it in that
\* step and sets success_count to 0, whatever successes came before.
C16_HalfOpenFailureOpens ==
    [][ (cb.state = "HALF_OPEN" /\ RecordStep("failure"))
          => (cb'.state = "OPEN" /\ cb'.success_count = 0) ]_vars

\* A failure has re-opened the breaker after one success in HALF_OPEN.
C16_Witness ==
    /\ cb.state = "OPEN"
    /\ cb_event.kind = "failure"
    /\ cb_event.was = "HALF_OPEN"
    /\ since_half = 1
    /\ cb.success_count = 0

\* C17: every shard has a breaker of its own: a call routed to a shard is
\* rejected only if a failure of a call routed to that shard was recorded.
C17_OwnBreaker ==
    cb_event.kind = "rejected" => cb_event.shard \in failed_shards

\* C18: at most one call admitted in HALF_OPEN is in flight: no other call
\* is started until the trial's outcome has been recorded.
C18_OneTrial ==
    Cardinality({k \in CBCalls :
                    cpc[k] = "running" /\ admitted_in[k] = "HALF_OPEN"}) <= 1

\* -------------------------------------------------- properties: retry_async

\* The exception of call i of run j is of none of the configured types.
NotRetryable(j, i) ==
    /\ calls[j][i] # "ok"
    /\ \A t \in 1..Len(config[j].retryable_exceptions) :
          ~IsInstance(calls[j][i], config[j].retryable_exceptions[t])

\* C19: retry_async calls func until the first success or max_attempts
\* calls.  A run that returned made k calls, the k-th the only successful
\* one, slept k-1 times and returned the k-th call's result; a run that
\* raised after retryable failures only made max_attempts calls, slept
\* max_attempts-1 times and raised the last call's exception.
C19_RetryUntilSuccess ==
    \A j \in RetryRuns :
        LET h == calls[j]
            n == Len(h)
        IN /\ n <= config[j].max_attempts
           /\ \A i \in 1..n : h[i] = "ok" => (i = n /\ retry_pc[j] = "returned")
           /\ retry_pc[j] = "returned" =>
                 /\ n >= 1 /\ h[n] = "ok"
                 /\ retry_result[j] = [kind |-> "return", type |-> "None", at |-> n]
                 /\ sleeps[j] = n - 1
           /\ (retry_pc[j] = "raised" /\ \A i \in 1..n : ~NotRetryable(j, i)) =>
                 /\ n = config[j].max_attempts
                 /\ retry_result[j] = [kind |-> "raise", type |-> h[n], at |-> n]
                 /\ sleeps[j] = n - 1

\* One run has returned on its third and last attempt; another run, with
\* three attempts too, has raised after three retryable failures.
C19_Witness ==
    \E j, i \in RetryRuns :
        /\ retry_pc[j] = "returned"
        /\ Len(calls[j]) = MaxAttempts
        /\ config[j].max_attempts = MaxAttempts
        /\ sleeps[j] = MaxAttempts - 1
        /\ retry_pc[i] = "raised"
        /\ Len(calls[i]) = MaxAttempts
        /\ config[i].max_attempts = MaxAttempts
        /\ \A a \in 1..MaxAttempts : ~NotRetryable(i, a)

C21_RouterDeterministic ==
    (Cardinality(counts_used) <= 1 /\ route_result.user # "") =>
        /\ route_result.shard_id
              = Md5LowByte(route_result.user) % route_result.total_shards
        /\ route_result.shard_id \in 0..(route_result.total_shards - 1)

\* A call of a manager with total_shards shards, the only kind of manager
\* so far, was answered from the cache with shard 3.
C21_Witness ==
    /\ counts_used = {total_shards}
    /\ route_result.hit
    /\ route_result.user = "ghost"
    /\ route_result.shard_id = 3

\* C22: get_shard_id returns md5(u) mod the manager's total_shards, also
\* when the cache holds another value for u.
C22_HashWins ==
    route_result.user # "" =>
        route_result.shard_id
            = Md5LowByte(route_result.user) % route_result.total_shards

\* ------------------------------------- properties: transfer_funds, continued

\* C25: a database error while an account is read is not reported as
\* account-not-found: a request ends with 404 only if one of its accounts
\* does not exist.
C25_ReadErrorIsNotNotFound ==
    \A r \in Reqs :
        response[r] = 404 =>
            (rq[r].from_user \notin Existing \/ rq[r].to_user \notin Existing)

\* The attempt of request r that is numbered attempt[r] has committed both
\* sessions.
Executed(r) ==
    /\ attempt[r] >= 1
    /\ \E e \in RowsBy(<<r, attempt[r]>>) : e.direction = "debit"
    /\ \E e \in RowsBy(<<r, attempt[r]>>) : e.direction = "credit"

\* C23: an event is published only for a request whose _execute_transfer
\* has succeeded; the step that publishes or fails to publish changes no
\* balance and no ledger row and ends the request with its success
\* response.
C23_PublishAfterCommit ==
    /\ [](\A r \in Reqs : uuid4(r) \in published =>
              (Executed(r) /\ rpc[r] = "done" /\ response[r] = 200))
    /\ [][ \A r \in Reqs :
             (rpc[r] = "invalidate" /\ rpc'[r] # "invalidate") =>
                 /\ Executed(r)
                 /\ rpc'[r] = "done"
                 /\ response'[r] = 200
                 /\ balance' = balance
                 /\ ledger' = ledger ]_vars

\* One request has ended with its success response and its event, another
\* one with its success response and no event.
C23_Witness ==
    \E r, q \in Reqs :
        /\ rpc[r] = "done" /\ response[r] = 200 /\ uuid4(r) \in published
        /\ rpc[q] = "done" /\ response[q] = 200 /\ uuid4(q) \notin published
        /\ Executed(q)

\* C24: if Kafka accepts messages from some time on, the event of every
\* request that ended with success is eventually published.
C24_EventuallyPublished ==
    (<>[]kafka_up) =>
        \A r \in Reqs : [](response[r] = 200 => <>(uuid4(r) \in published))

\* ---------------------------------- properties: ACIDShardManager, continued

\* The phase changes of the transaction state machine.
PhaseSteps ==
    {<<"NONE", "PREPARING">>, <<"PREPARING", "PREPARED">>,
     <<"PREPARED", "COMMITTING">>, <<"COMMITTING", "COMMITTED">>,
     <<"PREPARING", "ABORTING">>, <<"PREPARED", "ABORTING">>,
     <<"ABORTING", "ABORTED">>}

\* C26: the phase of a transaction changes only along PREPARING -> PREPARED
\* -> COMMITTING -> COMMITTED or PREPARING/PREPARED -> ABORTING -> ABORTED.
C26_PhaseOrder ==
    [][ \A c \in Calls :
          phase'[c] # phase[c] => <<phase[c], phase'[c]>> \in PhaseSteps ]_vars

\* The place of shard_id among the participants of call c (0: not one).
PlaceOf(c, shard_id) ==
    LET parts == Participants(ops[c])
    IN IF \E i \in 1..Len(parts) : parts[i] = shard_id
       THEN CHOOSE i \in 1..Len(parts) : parts[i] = shard_id
       ELSE 0

\* C27: a call has a commit result, a ledger row or a balance change only
\* after every participant has voted yes, and its phase is COMMITTED only
\* after the commit has succeeded on every participant.
C27_PrepareBeforeCommit ==
    /\ BalanceMatchesLedger
    /\ \A c \in Calls :
          LET parts == Participants(ops[c])
          IN /\ (commit_results[c] # <<>> \/ RowsBy(<<c, 0>>) # {}) =>
                   /\ Len(prepare_results[c]) = Len(parts)
                   /\ \A i \in 1..Len(parts) : prepare_results[c][i]
             /\ phase[c] = "COMMITTED" =>
                   /\ Len(commit_results[c]) = Len(parts)
                   /\ \A i \in 1..Len(parts) : commit_results[c][i]

\* A transfer across two shards is COMMITTED with its two rows written.
C27_Witness ==
    \E c \in Calls :
        /\ phase[c] = "COMMITTED"
        /\ ops[c].from_shard # ops[c].to_shard
        /\ ops[c].amount_cents > 0
        /\ Len(prepare_results[c]) = 2
        /\ Cardinality(RowsBy(<<c, 0>>)) = 2

\* Call c, across two shards, has the yes vote of its sender's shard and
\* that shard's commit or abort is still to come.
HoldsSenderLock(c) ==
    LET i == PlaceOf(c, ops[c].from_shard)
    IN /\ pc[c] \in {"prepare", "commit", "abort"}
       /\ ops[c].from_shard # ops[c].to_shard
       /\ i <= Len(prepare_results[c])
       /\ prepare_results[c][i]
       /\ i > Len(commit_results[c])

\* C28: between the yes vote of the sender's shard and that shard's commit
\* or abort, the sender's balance does not change.
C28_SenderLockHeld ==
    [][ \A c \in Calls :
          (HoldsSenderLock(c) /\ HoldsSenderLock(c)')
              => balance'[ops[c].from_user] = balance[ops[c].from_user] ]_vars

\* The status the record of call c's participant i should have by now:
\* COMMITTED after its successful commit, ABORTED after the abort, PREPARED
\* in between.
RecordStatus(c, i) ==
    IF i <= Len(commit_results[c]) /\ commit_results[c][i] THEN "COMMITTED"
    ELSE IF phase[c] = "ABORTED" THEN "ABORTED"
    ELSE "PREPARED"

\* C29: from a participant's yes vote on, prepared_transactions holds a
\* record for (transaction_id, shard_id): PREPARED until the commit or abort
\* step, COMMITTED after a successful commit, ABORTED after the abort.
C29_PreparedRecord ==
    \A c \in Calls : \A i \in 1..Len(prepare_results[c]) :
        prepare_results[c][i] =>
            \E r \in prepared_transactions :
                /\ r.transaction_id = ops[c].payment_id
                /\ r.shard_id = Participants(ops[c])[i]
                /\ r.status = RecordStatus(c, i)

C31_CommitAtomic ==
    [][ \A c \in Calls :
          Len(commit_results'[c]) = Len(commit_results[c]) + 1 =>
             LET i == Len(commit_results'[c])
                 shard_id == Participants(ops[c])[i]
             IN IF commit_results'[c][i]
                THEN /\ balance' = CommitBalance(shard_id, ops[c], balance)
                     /\ ledger' = ledger \cup CommitLedger(shard_id, ops[c], <<c, 0>>)
                     /\ prepared_transactions' =
                           SetStatus(prepared_transactions, ops[c].payment_id,
                                     shard_id, "COMMITTED")
                ELSE /\ balance' = balance
                     /\ ledger' = ledger
                     /\ prepared_transactions' = prepared_transactions ]_vars

\* The first commit of a positive transfer raised after its UPDATE accounts
\* and its INSERT had run: the call has a False result and the tables are
\* as they were at the start.
C31_Witness ==
    /\ last_rollback.call # 0
    /\ last_rollback.executed >= 2
    /\ ops[last_rollback.call].amount_cents > 0
    /\ commit_results[last_rollback.call] = <<FALSE>>
    /\ balance = InitBalance
    /\ ledger = {}

Terminal(c) == phase[c] \in {"COMMITTED", "ABORTED"}

\* C32: an entry of transaction_log is replaced or removed only when the
\* transaction it holds is COMMITTED or ABORTED, also when several calls of
\* one coordinator use the same payment_id.
C32_LogEntryKeptWhileRunning ==
    [][ \A m \in Managers : \A p \in PaymentIds :
          (transaction_log[m][p] # 0 /\ transaction_log'[m][p] # transaction_log[m][p])
              => Terminal(transaction_log[m][p]) ]_vars

\* A call has finished its cleanup and so removed the entry that held the
\* state of a later call of the same coordinator with the same payment_id,
\* which is in its own sleep.
C32_Witness ==
    \E c, d \in Calls :
        /\ c # d
        /\ pc[c] = "done" /\ pc[d] = "sleep"
        /\ mgr[c] = mgr[d]
        /\ ops[c].payment_id = ops[d].payment_id
        /\ transaction_log[mgr[d]][ops[d].payment_id] = 0

\* C33: a transaction whose deadline has passed while it is PREPARING
\* reaches phase ABORTED.
C33_TimeoutAborts ==
    \A c \in Calls :
        [](phase[c] = "PREPARING" /\ minutes >= timeout_at[c]
              => <>(phase[c] = "ABORTED"))

\* C34: in one window at most 10 requests of a user pass the rate-limit
\* check.
C34_AtMostTenPerWindow ==
    \A u \in Users : passed[u] <= max_requests

\* C35: once transfer_funds has returned success for a transfer, the balance
\* keys of its sender and its receiver hold no balance read before the
\* transfer committed, so get_account_from_shard returns none.  (Stated for
\* the states in which that transfer is the only one that has written.)
C35_NoStaleBalance ==
    \A r \in Reqs :
        (response[r] = 200 /\ \A row \in ledger : row.by[1] = r) =>
            \A u \in {rq[r].from_user, rq[r].to_user} :
                balance_cache[u] \in {NoKey, balance[u]}

C37_BreakerInvariants ==
    /\ cb.state = "CLOSED" => cb.failure_count < failure_threshold
    /\ cb.success_count > 0 => cb.state = "HALF_OPEN"
    /\ cb.success_count < success_threshold

\* The breaker is HALF_OPEN with one success counted, the failure count of
\* its opening still standing and another call in flight.
C37_Witness ==
    /\ cb.state = "HALF_OPEN"
    /\ cb.success_count = 1
    /\ cb.failure_count >= failure_threshold
    /\ \E k \in CBCalls : cpc[k] = "running"

\* C38: an attempt of execute_transfer_with_retry that the open breaker
\* rejects is the run's last: the CircuitBreakerException goes to the caller
\* at that attempt and no sleep follows it.
C38_OpenIsNotRetried ==
    \A j \in RetryRuns : \A i \in 1..Len(calls[j]) :
        calls[j][i] = "CircuitBreakerException" =>
            /\ i = Len(calls[j])
            /\ retry_pc[j] = "raised"
            /\ retry_result[j] = [kind |-> "raise",
                                  type |-> "CircuitBreakerException", at |-> i]

\* The delay before the jitter, as C39 names it:
\* D = min(base_delay * exponential_base^(a-1), max_delay).
CappedDelay(a, cfg) ==
    Min(cfg.base_delay * Pow(cfg.exponential_base, a - 1), cfg.max_delay)

C40_PositiveCents ==
    /\ \A r \in Reqs : Executed(r) => ToCents(rq[r].amount) > 0
    /\ \A row \in ledger : row.amount > 0
====
